---- MODULE Spec2Model ----
(***************************************************************************)
(* State-machine model of ensemble_tabpfn/ensemble_tabpfn.py: one          *)
(* EnsembleTabPFN estimator, from its construction through any sequence of *)
(* fit, predict and predict_proba calls.  Every step follows the Python    *)
(* source statement by statement, exceptions included: a call whose        *)
(* arguments do not bind to the callee's signature raises TypeError at the *)
(* call, and the statements after it are never executed.                   *)
(***************************************************************************)
EXTENDS Integers, Sequences, FiniteSets

\* ------------------------------------------------------------------ bounds
\* Largest iteration budget (max_iters) the constructor is given.
MaxIters == 3
\* Largest early-stopping patience (early_stopping_rounds) it is given.
MaxPatience == 3

\* ------------------------------------------------------- program constants
\* TabPFNConstants.MAX_INP_SIZE, the global row cap.
MAX_INP_SIZE == 1000
\* TabPFNConstants.MAX_FEAT_SIZE, the global column cap.
MAX_FEAT_SIZE == 100

\* ------------------------------------------------------------------ inputs
\* Constructor arguments: values below, at and above each cap.
NSamplesInputs == {1, MAX_INP_SIZE, MAX_INP_SIZE + 1, 1500}
NFeaturesInputs == {1, MAX_FEAT_SIZE, MAX_FEAT_SIZE + 1}
\* tolerance, in units of the default 1e-4.
ToleranceInputs == {0, 1}
CtorInputs ==
    [n_samples : NSamplesInputs, n_features : NFeaturesInputs,
     max_iters : 0..MaxIters, early_stopping_rounds : 0..MaxPatience,
     tolerance : ToleranceInputs]

\* Shapes of the (X, y) a caller hands to fit: X is rows x cols, y has ylen
\* entries.
DataInputs ==
    { d \in [rows : {1, 5, 2000}, cols : {100, 300}, ylen : {0, 1, 4, 5, 1999, 2000}] :
        d.ylen \in {d.rows, d.rows - 1} }
NoData == [rows |-> 0, cols |-> 0, ylen |-> 0]

\* Sentinel for np.inf.
Inf == 1000000

VARIABLES
    pc,                     \* where the estimator's caller stands
    args,                   \* the arguments __init__ was called with
    n_samples, n_features, max_iters, early_stopping_rounds, tolerance,
    data_sampler,           \* number of row samplers constructed
    feature_sampler,        \* number of feature partitioners constructed
    classifiers,            \* number of TabPFNClassifier instances constructed
    has_ensembles,          \* the attribute ensembles_ exists
    ensembles_,             \* the Ensemble Member list
    data,                   \* shape of the (X, y) of the fit call under way or last made
    n_train,                \* rows of X_train after train_test_split
    best_loss, no_improvement,
    epochs_begun,           \* iterations of the fit loop entered by the last fit call
    raw_preds,              \* Result.raw_preds of the last predict/predict_proba call
    call,                   \* the public operation under way or last made
    error                   \* the exception that ended it, "none" if it returned

vars ==
    << pc, args, n_samples, n_features, max_iters, early_stopping_rounds,
       tolerance, data_sampler, feature_sampler, classifiers, has_ensembles,
       ensembles_, data, n_train, best_loss, no_improvement, epochs_begun,
       raw_preds, call, error >>

config == << n_samples, n_features, max_iters, early_stopping_rounds, tolerance >>
objects == << data_sampler, feature_sampler, classifiers >>
locals == << n_train, best_loss, no_improvement, epochs_begun >>

\* ----------------------------------------------------------------- helpers
\* `not (value <= cap)`, the guard of both configuration errors.
ExceedsCap_OffByOne(value, cap) == ~(value <= cap + 1)
ExceedsCap(value, cap) == ~(value <= cap)

\* check_X_y(X, y, force_all_finite=False): X is a non-empty 2-D array and y
\* has one entry per row of X.
check_X_y(d) == d.rows >= 1 /\ d.cols >= 1 /\ d.ylen = d.rows

\* train_test_split(X, y, test_size=0.2): the training part keeps
\* floor(0.8 * rows) rows.
TrainRows(rows) == (4 * rows) \div 5

Init ==
    /\ pc = "new"
    /\ args = [n_samples |-> 0, n_features |-> 0, max_iters |-> 0,
               early_stopping_rounds |-> 0, tolerance |-> 0]
    /\ n_samples = 0 /\ n_features = 0 /\ max_iters = 0
    /\ early_stopping_rounds = 0 /\ tolerance = 0
    /\ data_sampler = 0 /\ feature_sampler = 0 /\ classifiers = 0
    /\ has_ensembles = FALSE
    /\ ensembles_ = << >>
    /\ data = NoData
    /\ n_train = 0 /\ best_loss = Inf /\ no_improvement = 0 /\ epochs_begun = 0
    /\ raw_preds = << >>
    /\ call = "none"
    /\ error = "none"

\* --------------------------------------------------------------- __init__
\* EnsembleTabPFN.__init__: both cap checks come first; only then are the
\* values stored and the sampler, the partitioner and the classifier built.
EnsembleTabPFN_init ==
    /\ pc = "new"
    /\ \E a \in CtorInputs :
        /\ args' = a
        /\ call' = "__init__"
        /\ IF ExceedsCap(a.n_samples, MAX_INP_SIZE)
                \/ ExceedsCap(a.n_features, MAX_FEAT_SIZE)
           THEN /\ error' = "ValueError"
                /\ pc' = "raised"
                /\ UNCHANGED << config, objects >>
           ELSE /\ n_samples' = a.n_samples
                /\ n_features' = a.n_features
                /\ data_sampler' = data_sampler + 1
                /\ feature_sampler' = feature_sampler + 1
                /\ max_iters' = a.max_iters
                /\ early_stopping_rounds' = a.early_stopping_rounds
                /\ tolerance' = a.tolerance
                /\ classifiers' = classifiers + 1
                /\ error' = "none"
                /\ pc' = "idle"
    /\ UNCHANGED << has_ensembles, ensembles_, data, locals, raw_preds >>

\* -------------------------------------------------------------------- fit
\* fit, lines 153-155: validate the input, reset ensembles_ to the empty
\* list, enter _generate_ensembles.
fit ==
    /\ pc = "idle"
    /\ \E d \in DataInputs :
        /\ data' = d
        /\ call' = "fit"
        /\ n_train' = 0 /\ epochs_begun' = 0
        /\ IF check_X_y(d)
           THEN /\ has_ensembles' = TRUE
                /\ ensembles_' = << >>
                /\ error' = "none"
                /\ pc' = "fit_split"
           ELSE /\ error' = "ValueError"
                /\ pc' = "idle"
                /\ UNCHANGED << has_ensembles, ensembles_ >>
    /\ UNCHANGED << args, config, objects, best_loss, no_improvement, raw_preds >>

\* _generate_ensembles, lines 107-111: split off the validation rows (an
\* empty training part is a ValueError), then initialise the running best
\* score and the no-improvement counter.
generate_ensembles_split ==
    /\ pc = "fit_split"
    /\ IF TrainRows(data.rows) = 0
       THEN /\ error' = "ValueError"
            /\ pc' = "idle"
            /\ UNCHANGED << n_train, best_loss, no_improvement >>
       ELSE /\ n_train' = TrainRows(data.rows)
            /\ best_loss' = Inf
            /\ no_improvement' = 0
            /\ pc' = "fit_for"
            /\ UNCHANGED error
    /\ UNCHANGED << args, config, objects, has_ensembles, ensembles_, data,
                    epochs_begun, raw_preds, call >>

\* `for epoch in range(self.max_iters)`, line 117: enter the next iteration,
\* or leave the loop (and fit) when the budget is used up.
generate_ensembles_for ==
    /\ pc = "fit_for"
    /\ IF epochs_begun < max_iters
       THEN /\ epochs_begun' = epochs_begun + 1
            /\ pc' = "fit_sample"
       ELSE /\ pc' = "idle"
            /\ UNCHANGED epochs_begun
    /\ UNCHANGED << args, config, objects, has_ensembles, ensembles_, data,
                    n_train, best_loss, no_improvement, raw_preds, call, error >>

\* Lines 118-120: self._data_subsample(X_train, y_train, random_state=...).
\* _data_subsample (lines 84-90) takes (self, X, y) only, so the call raises
\* TypeError before the sampler runs.  Nothing in _generate_ensembles or fit
\* catches it: the exception leaves fit, and lines 121-141 (training,
\* scoring, the append to ensembles_, the early-stopping test) are not
\* reached.
data_subsample_call ==
    /\ pc = "fit_sample"
    /\ error' = "TypeError"
    /\ pc' = "idle"
    /\ UNCHANGED << args, config, objects, has_ensembles, ensembles_, data,
                    locals, raw_preds, call >>

\* ---------------------------------------------------------------- predict
\* predict, line 201: self._predict(X).  _predict (line 165) takes
\* (self, X, model), so the call raises TypeError before _predict's body
\* (the classifier construction of line 166, check_is_fitted, the member
\* loop) runs.
predict ==
    /\ pc = "idle"
    /\ call' = "predict"
    /\ error' = "TypeError"
    /\ UNCHANGED << pc, args, config, objects, has_ensembles, ensembles_, data,
                    locals, raw_preds >>

\* predict_proba, line 220: the same call, the same TypeError.
predict_proba ==
    /\ pc = "idle"
    /\ call' = "predict_proba"
    /\ error' = "TypeError"
    /\ UNCHANGED << pc, args, config, objects, has_ensembles, ensembles_, data,
                    locals, raw_preds >>

Next ==
    \/ EnsembleTabPFN_init
    \/ fit
    \/ generate_ensembles_split
    \/ generate_ensembles_for
    \/ data_subsample_call
    \/ predict
    \/ predict_proba

Spec == Init /\ [][Next]_vars

\* ------------------------------------------------------------ vocabulary
\* The estimator counts as fitted when the Ensemble Member list exists and
\* is non-empty.
Fitted == has_ensembles /\ Len(ensembles_) >= 1

\* The last call was predict or predict_proba and has ended.
PredictEnded == pc = "idle" /\ call \in {"predict", "predict_proba"}

\* The last call was fit, it has ended, and it got as far as the fit loop
\* (its input passed validation and the training part was not empty).
FitLoopEnded == pc = "idle" /\ call = "fit" /\ n_train >= 1

\* The most recent fit call was given valid data and an iteration budget of
\* at least one: by the specification's fit loop, which appends one member
\* at the end of every iteration, this is a fit that retains M >= 1 members.
BudgetedFit == has_ensembles /\ n_train >= 1 /\ max_iters >= 1

\* Members 1..m in retention order, each with its groups in order.
RECURSIVE VisitOrder(_)
VisitOrder(m) ==
    IF m = 0 THEN << >>
    ELSE VisitOrder(m - 1)
            \o [g \in 1..Len(ensembles_[m].feat_samplers) |-> << m, g >>]

\* ---------------------------------------------------------------- claims
\* C1: with tolerance = 0, patience p >= 1 and max_iters > p + 1, a fit whose
\* validation scores never improve after iteration 1 runs exactly p + 1
\* iterations and retains exactly p + 1 members.  (No reachable fit computes
\* a validation score, so every reachable fit satisfies the premise.)
C1_PatienceCountsIterations ==
    ( /\ FitLoopEnded
      /\ tolerance = 0
      /\ early_stopping_rounds >= 1
      /\ max_iters > early_stopping_rounds + 1 )
    => ( /\ error = "none"
         /\ epochs_begun = early_stopping_rounds + 1
         /\ Len(ensembles_) = early_stopping_rounds + 1 )

\* C2: 300 columns under a cap of 100 with max_iters = 3 and
\* early_stopping_rounds = 3: fit ends with exactly 3 members, each holding
\* one row index set and a partitioning of 3 groups.
C2_BudgetBeforePatience ==
    ( /\ FitLoopEnded
      /\ data.cols = 300 /\ n_features = 100
      /\ max_iters = 3 /\ early_stopping_rounds = 3 )
    => ( /\ error = "none"
         /\ Len(ensembles_) = 3
         /\ \A k \in 1..Len(ensembles_) : Len(ensembles_[k].feat_samplers) = 3 )

\* C3: while the estimator is not fitted, every predict or predict_proba
\* call ends in a not-fitted error, and constructs no classifier on the way
\* (the one built by __init__ stays the only one).
C3_NotFittedGuard ==
    (PredictEnded /\ ~Fitted)
    => (error = "NotFittedError" /\ classifiers = 1)

C6_CapsFailFast ==
    (call # "none")
    => IF args.n_samples > MAX_INP_SIZE \/ args.n_features > MAX_FEAT_SIZE
       THEN /\ pc = "raised" /\ call = "__init__" /\ error = "ValueError"
            /\ data_sampler = 0 /\ feature_sampler = 0 /\ classifiers = 0
            /\ n_samples = 0 /\ n_features = 0
            /\ data = NoData /\ ~has_ensembles
       ELSE /\ pc # "raised"
            /\ n_samples = args.n_samples /\ n_features = args.n_features
            /\ data_sampler = 1 /\ feature_sampler = 1 /\ classifiers = 1

\* C6 witness: the constructor was given n_samples = 1500 and raised.
C6_Witness ==
    pc = "raised" /\ args.n_samples = 1500 /\ error = "ValueError"

C8_IterationFailureContained ==
    (FitLoopEnded /\ error # "none")
    => (epochs_begun = max_iters)

\* C9: the member list holds one member per iteration run and never more
\* than max_iters; the loop ends at the end of the first iteration at which
\* the no-improvement counter has reached early_stopping_rounds, or after
\* max_iters iterations.
C9_RetentionAndTermination ==
    /\ Len(ensembles_) <= max_iters
    /\ FitLoopEnded
        => ( /\ error = "none"
             /\ Len(ensembles_) = epochs_begun
             /\ \/ epochs_begun = max_iters
                \/ epochs_begun >= 1 /\ no_improvement >= early_stopping_rounds )

====
